---- MODULE Spec2Model ----
(***************************************************************************)
(* The pseudo-machine lowering pass of mcc (src/codegen/x86_pass.rs):      *)
(* convert_function lowers one function body from Pseudo instructions to   *)
(* X86 instructions, resolving every symbolic register to a stack slot     *)
(* through a StackFrame.                                                   *)
(*                                                                         *)
(* Spec      : convert_function on bodies of every instruction shape, one  *)
(*             loop iteration per step.                                    *)
(* SpecSeq   : convert_function on longer bodies of moves between symbolic *)
(*             registers and call-sequence instructions.                   *)
(* SpecFrame : the StackFrame methods get / record_push / record_pop       *)
(*             called in every order on a fresh frame.                     *)
(***************************************************************************)
EXTENDS Integers, Sequences, FiniteSets, TLC

VARIABLES params, body, stack_frame, body_vec, pc, resolved, pops

vars == <<params, body, stack_frame, body_vec, pc, resolved, pops>>

(***************************************************************************)
(* Bounds of the model.                                                    *)
(***************************************************************************)
MaxParams == 9          \* params.len() ranges over 0..MaxParams
MaxBody == 1            \* longest body in Spec, drawn from every instruction shape
MaxSeq == 3             \* longest body in SpecSeq, drawn from SeqInsts
MaxPush == 2            \* most record_push calls on one frame in SpecFrame

Identifiers == {"a", "b", "c"}
InputIdentifiers == {"a", "b"}

(***************************************************************************)
(* assembly::Op, the concrete operand, and assembly::PseudoOp.             *)
(***************************************************************************)
Imm(v) == [kind |-> "Imm", value |-> v]
Register(r) == [kind |-> "Register", reg |-> r]
Stack(o) == [kind |-> "Stack", offset |-> o]

Normal(o) == [kind |-> "Normal", op |-> o]
PseudoRegister(n) == [kind |-> "PseudoRegister", name |-> n]

R10 == Register("R10")
R11 == Register("R11")
Cx == Register("Cx")

\* the concrete operands the generated bodies use
InputOps == {Imm(3), Register("Ax"), Stack(8)}
InputPseudoOps == {Normal(o) : o \in InputOps} \cup {PseudoRegister(n) : n \in InputIdentifiers}

\* super::Binary: the operators fix_binary's match is exhaustive over
Binary == {"Add", "Sub", "Mult", "And", "Xor", "Or", "ShiftLeft", "ShiftRight"}

(***************************************************************************)
(* The instructions.  Pseudo and X86 have the same variants; a Pseudo      *)
(* instruction's operands are PseudoOps, an X86 instruction's are Ops.     *)
(***************************************************************************)
DeallocateStack(bytes) == [inst |-> "DeallocateStack", bytes |-> bytes]
AllocateStack(n) == [inst |-> "AllocateStack", bytes |-> n]
Push(val) == [inst |-> "Push", val |-> val]
Call(fun) == [inst |-> "Call", fun |-> fun]
Mov(src, dst) == [inst |-> "Mov", src |-> src, dst |-> dst]
Unary(operator, operand) == [inst |-> "Unary", operator |-> operator, operand |-> operand]
BinaryInst(operator, op, dst_op) ==
    [inst |-> "Binary", operator |-> operator, op |-> op, dst_op |-> dst_op]
Idiv(divisor) == [inst |-> "Idiv", divisor |-> divisor]
Ret == [inst |-> "Ret"]
Cdq == [inst |-> "Cdq"]
Cmp(left, right) == [inst |-> "Cmp", left |-> left, right |-> right]
Jmp(label) == [inst |-> "Jmp", label |-> label]
Label(name) == [inst |-> "Label", name |-> name]
JmpCC(condition, label) == [inst |-> "JmpCC", condition |-> condition, label |-> label]
SetCC(condition, op) == [inst |-> "SetCC", condition |-> condition, op |-> op]

\* the Pseudo instructions a generated body is drawn from
PseudoInsts ==
    {DeallocateStack(8), AllocateStack(8), Call("f"), Ret, Cdq,
     Jmp("L"), Label("L"), JmpCC("E", "L")}
    \cup {Push(v) : v \in InputPseudoOps}
    \cup {Mov(s, d) : s \in InputPseudoOps, d \in InputPseudoOps}
    \cup {Unary("Neg", o) : o \in InputPseudoOps}
    \cup {BinaryInst(b, s, d) : b \in Binary, s \in InputPseudoOps, d \in InputPseudoOps}
    \cup {Idiv(o) : o \in InputPseudoOps}
    \cup {Cmp(l, r) : l \in InputPseudoOps, r \in InputPseudoOps}
    \cup {SetCC("E", o) : o \in InputPseudoOps}

(***************************************************************************)
(* StackFrame.                                                             *)
(***************************************************************************)
EmptyMap == [i \in {} |-> 0]

new(offset) == [map |-> EmptyMap, size |-> offset, push_offset |-> 0]

record_push(sf) == [sf EXCEPT !.push_offset = @ + 8]

record_pop(sf) == [sf EXCEPT !.push_offset = @ - 8]

\* get recording the size before it grows instead of the size after
get_stale(sf, ident) ==
    IF ident \in DOMAIN sf.map
    THEN [frame |-> sf, offset |-> sf.map[ident]]
    ELSE LET size == sf.size + 4
         IN [frame |-> [sf EXCEPT !.size = size, !.map = (ident :> sf.size) @@ sf.map],
             offset |-> size + sf.push_offset]

\* get returns the frame it leaves behind and the offset it hands out
get(sf, ident) ==
    IF ident \in DOMAIN sf.map
    THEN [frame |-> sf, offset |-> sf.map[ident]]
    ELSE LET size == sf.size + 4
         IN [frame |-> [sf EXCEPT !.size = size, !.map = (ident :> size) @@ sf.map],
             offset |-> size + sf.push_offset]

fix_by_name(sf, name) ==
    LET g == get(sf, name)
    IN [frame |-> g.frame, op |-> Stack(g.offset)]

fix_operand(sf, operand) ==
    IF operand.kind = "Normal"
    THEN [frame |-> sf, op |-> operand.op]
    ELSE fix_by_name(sf, operand.name)

\* the rounding of the earlier revision of rounded_size
rounded_size_plus(sf) == sf.size \div 16 + 16

\* the size rounded down to a multiple of 16
rounded_size_down(sf) == (sf.size \div 16) * 16

rounded_size(sf) == (sf.size \div 16 + 1) * 16

(***************************************************************************)
(* fix_binary: the instructions one Pseudo::Binary lowers to, and the      *)
(* frame afterwards.  The arms are tried in the order of the match;        *)
(* fix_shift is its two ShiftLeft | ShiftRight arms.                       *)
(***************************************************************************)
\* the count moved to Cx only when it is a stack slot
fix_shift_slot_only(operator, op, dst_op, sf) ==
    LET o == fix_operand(sf, op)
        dst == fix_operand(o.frame, dst_op)
    IN IF o.op.kind = "Stack"
       THEN [frame |-> dst.frame,
             out |-> <<Mov(o.op, Cx), BinaryInst(operator, Cx, dst.op)>>]
       ELSE [frame |-> dst.frame, out |-> <<BinaryInst(operator, o.op, dst.op)>>]

fix_shift(operator, op, dst_op, sf) ==
    IF op.kind = "Normal" /\ op.op.kind = "Imm"
    THEN LET dst == fix_operand(sf, dst_op)
         IN [frame |-> dst.frame, out |-> <<BinaryInst(operator, op.op, dst.op)>>]
    ELSE LET o == fix_operand(sf, op)
             dst == fix_operand(o.frame, dst_op)
         IN [frame |-> dst.frame,
             out |-> <<Mov(o.op, Cx), BinaryInst(operator, Cx, dst.op)>>]

fix_binary(operator, op, dst_op, sf) ==
    IF operator = "Mult" /\ dst_op.kind = "PseudoRegister"
    THEN LET o == fix_operand(sf, op)
             d == fix_by_name(o.frame, dst_op.name)
         IN [frame |-> d.frame,
             out |-> <<Mov(d.op, R11),
                       BinaryInst(operator, o.op, R11),
                       Mov(R11, d.op)>>]
    ELSE IF /\ operator \in {"Add", "Sub", "And", "Xor", "Or"}
            /\ op.kind = "PseudoRegister"
            /\ dst_op.kind = "PseudoRegister"
    THEN LET src == fix_by_name(sf, op.name)
             dst == fix_by_name(src.frame, dst_op.name)
         IN [frame |-> dst.frame,
             out |-> <<Mov(src.op, R10), BinaryInst(operator, R10, dst.op)>>]
    ELSE IF operator \in {"ShiftLeft", "ShiftRight"}
    THEN fix_shift(operator, op, dst_op, sf)
    ELSE IF op.kind = "PseudoRegister" /\ dst_op.kind = "Normal"
    THEN LET o == fix_by_name(sf, op.name)
         IN [frame |-> o.frame, out |-> <<BinaryInst(operator, o.op, dst_op.op)>>]
    ELSE IF op.kind = "Normal" /\ dst_op.kind = "PseudoRegister"
    THEN LET d == fix_by_name(sf, dst_op.name)
         IN [frame |-> d.frame, out |-> <<BinaryInst(operator, op.op, d.op)>>]
    ELSE [frame |-> sf, out |-> <<BinaryInst(operator, op.op, dst_op.op)>>]

(***************************************************************************)
(* fix_instruction: the instructions one Pseudo instruction appends to the *)
(* output vector, and the frame afterwards.  fix_push, fix_mov and         *)
(* fix_idiv are its Push, Mov and Idiv arms.                               *)
(***************************************************************************)
\* the push of a stack slot emitted as it is
fix_push_direct(val, sf) ==
    LET v == fix_operand(sf, val)
    IN [frame |-> v.frame, out |-> <<Push(v.op)>>]

fix_push(val, sf) ==
    LET v == fix_operand(sf, val)
    IN IF v.op.kind = "Stack"
       THEN [frame |-> v.frame, out |-> <<Mov(v.op, R10), Push(R10)>>]
       ELSE [frame |-> v.frame, out |-> <<Push(v.op)>>]

\* the move emitted as it is, whatever its operands
fix_mov_direct(src, dst, sf) ==
    LET s == fix_operand(sf, src)
        d == fix_operand(s.frame, dst)
    IN [frame |-> d.frame, out |-> <<Mov(s.op, d.op)>>]

\* the move split only when the destination is a stack slot as well
fix_mov_both(src, dst, sf) ==
    LET s == fix_operand(sf, src)
        d == fix_operand(s.frame, dst)
    IN IF s.op.kind = "Stack" /\ d.op.kind = "Stack"
       THEN [frame |-> d.frame, out |-> <<Mov(s.op, R10), Mov(R10, d.op)>>]
       ELSE [frame |-> d.frame, out |-> <<Mov(s.op, d.op)>>]

fix_mov(src, dst, sf) ==
    LET s == fix_operand(sf, src)
        d == fix_operand(s.frame, dst)
    IN IF s.op.kind = "Stack"
       THEN [frame |-> d.frame, out |-> <<Mov(s.op, R10), Mov(R10, d.op)>>]
       ELSE [frame |-> d.frame, out |-> <<Mov(s.op, d.op)>>]

\* the divide by an immediate emitted as it is
fix_idiv_direct(divisor, sf) ==
    LET d == fix_operand(sf, divisor)
    IN [frame |-> d.frame, out |-> <<Idiv(d.op)>>]

fix_idiv(divisor, sf) ==
    LET d == fix_operand(sf, divisor)
    IN IF d.op.kind = "Imm"
       THEN [frame |-> d.frame, out |-> <<Mov(Imm(d.op.value), R10), Idiv(R10)>>]
       ELSE [frame |-> d.frame, out |-> <<Idiv(d.op)>>]

fix_instruction(op, sf) ==
    CASE op.inst = "DeallocateStack" -> [frame |-> sf, out |-> <<DeallocateStack(op.bytes)>>]
      [] op.inst = "Push" -> fix_push(op.val, sf)
      [] op.inst = "Call" -> [frame |-> sf, out |-> <<Call(op.fun)>>]
      [] op.inst = "Mov" -> fix_mov(op.src, op.dst, sf)
      [] op.inst = "Unary" ->
            LET operand == fix_operand(sf, op.operand)
            IN [frame |-> operand.frame, out |-> <<Unary(op.operator, operand.op)>>]
      [] op.inst = "Binary" -> fix_binary(op.operator, op.op, op.dst_op, sf)
      [] op.inst = "Idiv" -> fix_idiv(op.divisor, sf)
      [] op.inst = "AllocateStack" -> [frame |-> sf, out |-> <<AllocateStack(op.bytes)>>]
      [] op.inst = "Ret" -> [frame |-> sf, out |-> <<Ret>>]
      [] op.inst = "Cdq" -> [frame |-> sf, out |-> <<Cdq>>]
      [] op.inst = "Cmp" ->
            IF op.left.kind = "PseudoRegister" /\ op.right.kind = "PseudoRegister"
            THEN LET left == fix_by_name(sf, op.left.name)
                     right == fix_by_name(left.frame, op.right.name)
                 IN [frame |-> right.frame,
                     out |-> <<Mov(left.op, R10), Cmp(R10, right.op)>>]
            ELSE IF op.right.kind = "Normal" /\ op.right.op.kind = "Imm"
            THEN LET left == fix_operand(sf, op.left)
                 IN [frame |-> left.frame,
                     out |-> <<Mov(Imm(op.right.op.value), R11), Cmp(left.op, R11)>>]
            ELSE LET left == fix_operand(sf, op.left)
                     right == fix_operand(left.frame, op.right)
                 IN [frame |-> right.frame, out |-> <<Cmp(left.op, right.op)>>]
      [] op.inst = "Jmp" -> [frame |-> sf, out |-> <<Jmp(op.label)>>]
      [] op.inst = "Label" -> [frame |-> sf, out |-> <<Label(op.name)>>]
      [] op.inst = "JmpCC" -> [frame |-> sf, out |-> <<JmpCC(op.condition, op.label)>>]
      [] op.inst = "SetCC" ->
            LET o == fix_operand(sf, op.op)
            IN [frame |-> o.frame, out |-> <<SetCC(op.condition, o.op)>>]

(***************************************************************************)
(* convert_function.  The state after Init is the state when the loop over *)
(* the body starts: the frame seeded with the stack-passed parameters and  *)
(* the output holding the placeholder prologue.  FixInstruction is one     *)
(* iteration of the loop on the next instruction of the body; Finish is    *)
(* the patching of the prologue once the body is exhausted.                *)
(***************************************************************************)
arg_bytes(n) == IF n <= 6 THEN 0 ELSE (n - 6) * 8

\* padding on an even parameter count instead of an odd one
padding_bytes_even(n) == IF n > 6 /\ n % 2 = 0 THEN 8 ELSE 0

padding_bytes(n) == IF n > 6 /\ n % 2 # 0 THEN 8 ELSE 0

stack_start(n) == arg_bytes(n) + padding_bytes(n)

Init ==
    /\ params \in 0..MaxParams
    /\ body = <<>>
    /\ stack_frame = new(stack_start(params))
    /\ body_vec = <<AllocateStack(0)>>
    /\ pc = "loop"
    /\ resolved = {}
    /\ pops = 0

Lower(op) ==
    /\ pc = "loop"
    /\ LET r == fix_instruction(op, stack_frame)
       IN /\ stack_frame' = r.frame
          /\ body_vec' = body_vec \o r.out
    /\ body' = Append(body, op)
    /\ UNCHANGED <<params, pc, resolved, pops>>

FixInstruction(op) ==
    /\ Len(body) < MaxBody
    /\ Lower(op)

\* the prologue patched even when the frame is empty
patch_prologue_always(sf, vec) == [vec EXCEPT ![1] = AllocateStack(rounded_size(sf))]

patch_prologue(sf, vec) ==
    IF sf.size = 0
    THEN Tail(vec)
    ELSE [vec EXCEPT ![1] = AllocateStack(rounded_size(sf))]

Finish ==
    /\ pc = "loop"
    /\ body_vec' = patch_prologue(stack_frame, body_vec)
    /\ pc' = "done"
    /\ UNCHANGED <<params, body, stack_frame, resolved, pops>>

Next ==
    \/ \E op \in PseudoInsts : FixInstruction(op)
    \/ Finish

Spec == Init /\ [][Next]_vars

(***************************************************************************)
(* SpecSeq: convert_function on longer bodies, drawn from the slot-to-slot *)
(* moves between the identifiers, a move from an already-resolved slot and *)
(* the instructions of a call sequence.                                    *)
(***************************************************************************)
SeqInsts ==
    {Mov(PseudoRegister(p[1]), PseudoRegister(p[2])) :
        p \in {q \in Identifiers \X Identifiers : q[1] # q[2]}}
    \cup {Mov(Normal(Stack(8)), PseudoRegister("a"))}
    \cup {Push(PseudoRegister("a")), Push(Normal(Imm(3))), Call("f"),
          DeallocateStack(8), AllocateStack(8), Ret}

FixSeqInstruction(op) ==
    /\ Len(body) < MaxSeq
    /\ Lower(op)

NextSeq ==
    \/ \E op \in SeqInsts : FixSeqInstruction(op)
    \/ Finish

SpecSeq == Init /\ [][NextSeq]_vars

(***************************************************************************)
(* SpecFrame: the methods of one StackFrame, created by new with the seed  *)
(* of convert_function, called in every order.  resolved collects, for     *)
(* every call of get: the identifier, whether the map already held it, the *)
(* size and the push offset at the call, the number of record_pop calls    *)
(* made before it (pops), and the offset returned.                         *)
(* A record_pop with no push outstanding underflows the usize push_offset; *)
(* the sequences modelled are those in which every pop matches a push.     *)
(***************************************************************************)
InitFrame ==
    /\ Init
    /\ params \in {0, MaxParams}

Get(ident) ==
    /\ pc = "loop"
    /\ LET g == get(stack_frame, ident)
       IN /\ stack_frame' = g.frame
          /\ resolved' = resolved \cup
                {[ident |-> ident,
                  seen |-> ident \in DOMAIN stack_frame.map,
                  size_before |-> stack_frame.size,
                  push_offset |-> stack_frame.push_offset,
                  pops |-> pops,
                  offset |-> g.offset]}
    /\ UNCHANGED <<params, body, body_vec, pc, pops>>

RecordPush ==
    /\ pc = "loop"
    /\ stack_frame.push_offset + 8 * pops < 8 * MaxPush
    /\ stack_frame' = record_push(stack_frame)
    /\ UNCHANGED <<params, body, body_vec, pc, resolved, pops>>

RecordPop ==
    /\ pc = "loop"
    /\ stack_frame.push_offset >= 8
    /\ stack_frame' = record_pop(stack_frame)
    /\ pops' = pops + 1
    /\ UNCHANGED <<params, body, body_vec, pc, resolved>>

NextFrame ==
    \/ \E ident \in InputIdentifiers : Get(ident)
    \/ RecordPush
    \/ RecordPop

SpecFrame == InitFrame /\ [][NextFrame]_vars

(***************************************************************************)
(* Vocabulary of the properties.                                           *)
(***************************************************************************)
Range(seq) == {seq[i] : i \in DOMAIN seq}

IsStack(o) == o.kind = "Stack"

\* the two operands of an emitted mov, binary op or cmp are both stack slots
TwoMemoryOperands(x) ==
    \/ x.inst = "Mov" /\ IsStack(x.src) /\ IsStack(x.dst)
    \/ x.inst = "Binary" /\ IsStack(x.op) /\ IsStack(x.dst_op)
    \/ x.inst = "Cmp" /\ IsStack(x.left) /\ IsStack(x.right)

IsAllocateStack(x) == x.inst = "AllocateStack"

\* the operands of a Pseudo instruction, in the order the pass resolves them
OperandsOf(x) ==
    CASE x.inst = "Push" -> <<x.val>>
      [] x.inst = "Mov" -> <<x.src, x.dst>>
      [] x.inst = "Unary" -> <<x.operand>>
      [] x.inst = "Binary" -> <<x.op, x.dst_op>>
      [] x.inst = "Idiv" -> <<x.divisor>>
      [] x.inst = "Cmp" -> <<x.left, x.right>>
      [] x.inst = "SetCC" -> <<x.op>>
      [] OTHER -> <<>>

IsPseudoRegister(o) == o.kind = "PseudoRegister"

UsesSymbolic(x) == \E i \in DOMAIN OperandsOf(x) : IsPseudoRegister(OperandsOf(x)[i])

NoSymbolic(b) == \A i \in DOMAIN b : ~UsesSymbolic(b[i])

RECURSIVE AddNew(_, _)
AddNew(acc, ops) ==
    IF ops = <<>>
    THEN acc
    ELSE LET o == Head(ops)
         IN AddNew(IF IsPseudoRegister(o) /\ o.name \notin Range(acc)
                   THEN Append(acc, o.name)
                   ELSE acc,
                   Tail(ops))

\* the identifiers of a body, in the order of their first use
RECURSIVE FirstUse(_)
FirstUse(b) ==
    IF b = <<>>
    THEN <<>>
    ELSE AddNew(FirstUse(SubSeq(b, 1, Len(b) - 1)), OperandsOf(b[Len(b)]))

\* the seed the stack-passed parameters call for: 8 bytes each, and 8 bytes
\* of padding when their number is odd
SeedOf(n) ==
    LET stack_passed == IF n > 6 THEN n - 6 ELSE 0
    IN stack_passed * 8 + (IF stack_passed % 2 = 1 THEN 8 ELSE 0)

\* the smallest multiple of 16 that is at least n
RoundUp16(n) == ((n + 15) \div 16) * 16

(***************************************************************************)
(* C1: no emitted mov, binary op or cmp has a stack slot in both of its    *)
(* operand positions.                                                      *)
(***************************************************************************)
C1_NoTwoMemoryOperands ==
    \A i \in DOMAIN body_vec : ~TwoMemoryOperands(body_vec[i])

(***************************************************************************)
(* C2: no emitted Mult has a stack slot as its destination.                *)
(***************************************************************************)
C2_MultNeverWritesMemory ==
    \A i \in DOMAIN body_vec :
        body_vec[i].inst = "Binary" /\ body_vec[i].operator = "Mult"
            => ~IsStack(body_vec[i].dst_op)

(***************************************************************************)
(* C3, as stated: the lowered body of a function that uses no symbolic     *)
(* register holds no AllocateStack at all, for every parameter count.      *)
(***************************************************************************)
C3_NoAllocateStackAtAll ==
    pc = "done" /\ NoSymbolic(body)
        => \A i \in DOMAIN body_vec : ~IsAllocateStack(body_vec[i])

(***************************************************************************)
(* C3, amended: the lowered body of a function with at most six parameters *)
(* that uses no symbolic register has no prologue: its AllocateStack       *)
(* instructions are exactly the pseudo AllocateStack instructions of the   *)
(* input, copied in order, so none when the input has none.                *)
(***************************************************************************)
C3_NoPrologueWithoutSlots ==
    pc = "done" /\ params <= 6 /\ NoSymbolic(body)
        => SelectSeq(body_vec, IsAllocateStack) = SelectSeq(body, IsAllocateStack)

C3_Witness ==
    /\ pc = "done"
    /\ params <= 6
    /\ Len(body) >= 1
    /\ NoSymbolic(body)
    /\ \E i \in DOMAIN body : OperandsOf(body[i]) # <<>>
    /\ \A i \in DOMAIN body_vec : ~IsAllocateStack(body_vec[i])

(***************************************************************************)
(* C4: the amount of the prologue AllocateStack left at position 0 is a    *)
(* multiple of 16.                                                         *)
(***************************************************************************)
C4_PrologueAligned ==
    pc = "done" /\ stack_frame.size # 0
        => /\ IsAllocateStack(body_vec[1])
           /\ body_vec[1].bytes % 16 = 0

C4_Witness ==
    /\ pc = "done"
    /\ params > 6
    /\ Cardinality(DOMAIN stack_frame.map) >= 2
    /\ IsAllocateStack(body_vec[1])

(***************************************************************************)
(* C5: the prologue amount is the smallest multiple of 16 that is at least *)
(* the raw frame size; a raw size of 16 is written back as 16.             *)
(***************************************************************************)
C5_PrologueIsRoundUp ==
    pc = "done" /\ stack_frame.size # 0
        => body_vec[1] = AllocateStack(RoundUp16(stack_frame.size))

(***************************************************************************)
(* C6: lowering a pseudo Push moves the push offset by 8: after a body of  *)
(* k pushes the push offset is 8 * k.                                      *)
(***************************************************************************)
C6_PushMovesPushOffset ==
    (\A i \in DOMAIN body : body[i].inst = "Push")
        => stack_frame.push_offset = 8 * Len(body)

(***************************************************************************)
(* C7: get of an identifier not yet seen extends the size by 4 and records *)
(* the new size; get of an identifier already seen returns the recorded    *)
(* offset plus the outstanding push offset.                                *)
(***************************************************************************)
C7_GetContract ==
    \A r \in resolved :
        IF r.seen
        THEN r.offset = stack_frame.map[r.ident] + r.push_offset
        ELSE stack_frame.map[r.ident] = r.size_before + 4

(***************************************************************************)
(* C8: the offset recorded for an identifier never changes, and an         *)
(* identifier resolved before some pushes and again after the matching     *)
(* pops, the push offset back to its earlier value, gets the same slot     *)
(* address both times.                                                     *)
(***************************************************************************)
C8_StableAndTransparent ==
    /\ \A r \in resolved :
          ~r.seen => stack_frame.map[r.ident] = r.size_before + 4
    /\ \A r1, r2 \in resolved :
          /\ r1.ident = r2.ident
          /\ r1.pops < r2.pops
          /\ r1.push_offset = r2.push_offset
          => r1.offset = r2.offset

(***************************************************************************)
(* C9: the frame is seeded with 8 bytes per stack-passed parameter plus 8  *)
(* bytes of padding when their number is odd, before any instruction is    *)
(* lowered; 8 parameters seed 16, 7 seed 8 + 8, at most 6 seed 0; the      *)
(* first symbolic register of the body is placed at seed + 4.              *)
(***************************************************************************)
C9_StackArgumentSeed ==
    /\ body = <<>> => stack_frame.size = SeedOf(params)
    /\ params <= 6 => stack_start(params) = 0
    /\ params = 7 => arg_bytes(params) = 8 /\ padding_bytes(params) = 8
    /\ params = 8 => arg_bytes(params) = 16 /\ padding_bytes(params) = 0
    /\ FirstUse(body) # <<>>
          => stack_frame.map[FirstUse(body)[1]] = SeedOf(params) + 4

C9_Witness ==
    /\ params = 7
    /\ FirstUse(body) # <<>>
    /\ stack_frame.map[FirstUse(body)[1]] = 20

(***************************************************************************)
(* C10: the k-th distinct identifier of the body, in first-use order, has  *)
(* the offset seed + 4 * k, and the frame size is the seed plus 4 bytes    *)
(* per distinct identifier: the layout is a function of the input alone.   *)
(***************************************************************************)
C10_FirstUseOrderLayout ==
    LET order == FirstUse(body)
    IN /\ DOMAIN stack_frame.map = Range(order)
       /\ \A k \in DOMAIN order :
             stack_frame.map[order[k]] = SeedOf(params) + 4 * k
       /\ stack_frame.size = SeedOf(params) + 4 * Len(order)

C10_Witness ==
    /\ pc = "done"
    /\ FirstUse(body) = <<"c", "a", "b">>
    /\ stack_frame.map["b"] = SeedOf(params) + 12
    /\ params = 9

(***************************************************************************)
(* Vocabulary of the lowering rules.                                       *)
(***************************************************************************)
\* a pseudo operand that is a stack slot: a symbolic register or a slot
\* already resolved
IsSlot(o) == IsPseudoRegister(o) \/ (o.kind = "Normal" /\ IsStack(o.op))

\* the concrete operand a pseudo operand stands for once the frame holds it
ResolvedOp(o, sf) == IF o.kind = "Normal" THEN o.op ELSE Stack(sf.map[o.name])

\* the instructions emitted for the body, the prologue position left out
Lowered == IF pc = "done" /\ stack_frame.size = 0 THEN body_vec ELSE Tail(body_vec)

SlotMove(x) == x.inst = "Mov" /\ IsSlot(x.src) /\ IsSlot(x.dst)

(***************************************************************************)
(* C11: a body of slot-to-slot moves lowers to two movs per move, slot to  *)
(* R10 then R10 to destination, each identifier keeping one slot in every  *)
(* move; mov x -> y; mov y -> x gives four instructions; no emitted mov    *)
(* goes from memory to memory.                                             *)
(***************************************************************************)
C11_SlotMoveThroughScratch ==
    /\ (\A i \in DOMAIN body : SlotMove(body[i]))
          => /\ Len(Lowered) = 2 * Len(body)
             /\ \A i \in DOMAIN body :
                   /\ Lowered[2 * i - 1] = Mov(ResolvedOp(body[i].src, stack_frame), R10)
                   /\ Lowered[2 * i] = Mov(R10, ResolvedOp(body[i].dst, stack_frame))
    /\ \A i \in DOMAIN body_vec :
          body_vec[i].inst = "Mov" => ~(IsStack(body_vec[i].src) /\ IsStack(body_vec[i].dst))

C11_Witness ==
    /\ pc = "done"
    /\ body = <<Mov(PseudoRegister("a"), PseudoRegister("b")),
                Mov(PseudoRegister("b"), PseudoRegister("a"))>>
    /\ Lowered = <<Mov(Stack(4), R10), Mov(R10, Stack(8)),
                   Mov(Stack(8), R10), Mov(R10, Stack(4))>>

(***************************************************************************)
(* One step of the loop, seen from outside: the instruction it consumed    *)
(* and the instructions it appended.                                       *)
(***************************************************************************)
Lowering == body' # body

LastOp == body'[Len(body')]

Emitted == SubSeq(body_vec', Len(body_vec) + 1, Len(body_vec'))

\* the instruction with every operand replaced by the operand it resolves to
OneToOne(x, sf) ==
    CASE x.inst = "Push" -> Push(ResolvedOp(x.val, sf))
      [] x.inst = "Mov" -> Mov(ResolvedOp(x.src, sf), ResolvedOp(x.dst, sf))
      [] x.inst = "Unary" -> Unary(x.operator, ResolvedOp(x.operand, sf))
      [] x.inst = "Binary" ->
            BinaryInst(x.operator, ResolvedOp(x.op, sf), ResolvedOp(x.dst_op, sf))
      [] x.inst = "Idiv" -> Idiv(ResolvedOp(x.divisor, sf))
      [] x.inst = "Cmp" -> Cmp(ResolvedOp(x.left, sf), ResolvedOp(x.right, sf))
      [] x.inst = "SetCC" -> SetCC(x.condition, ResolvedOp(x.op, sf))
      [] OTHER -> x

IsImmediate(o) == o.kind = "Normal" /\ o.op.kind = "Imm"

IsHardwareRegister(o) == o.kind = "Normal" /\ o.op.kind = "Register"

\* the shapes the legalization table lists with a fix of more than one
\* instruction
TableSplit(x) ==
    \/ SlotMove(x)
    \/ x.inst = "Idiv" /\ IsImmediate(x.divisor)
    \/ x.inst = "Binary" /\ x.operator = "Mult" /\ IsSlot(x.dst_op)
    \/ /\ x.inst = "Binary"
       /\ x.operator \in {"Add", "Sub", "And", "Xor", "Or"}
       /\ IsSlot(x.op)
       /\ IsSlot(x.dst_op)
    \/ /\ x.inst = "Binary"
       /\ x.operator \in {"ShiftLeft", "ShiftRight"}
       /\ ~IsImmediate(x.op)
    \/ x.inst = "Cmp" /\ IsPseudoRegister(x.left) /\ IsPseudoRegister(x.right)
    \/ x.inst = "Cmp" /\ IsImmediate(x.right)
    \/ x.inst = "Push" /\ IsSlot(x.val)

(***************************************************************************)
(* C12, as stated: every shape the legalization table does not list lowers *)
(* to one instruction with the resolved operands; so does the move from a  *)
(* stack slot to a hardware register.                                      *)
(***************************************************************************)
C12_UnlistedOneToOne ==
    [][Lowering /\ ~TableSplit(LastOp)
          => Emitted = <<OneToOne(LastOp, stack_frame')>>]_vars

(***************************************************************************)
(* C12, amended: every shape the table does not list lowers to one         *)
(* instruction with the resolved operands, except the move from a stack    *)
(* slot to an operand that is not a stack slot (a hardware register),      *)
(* which lowers to two movs, slot to R10 then R10 to the destination.      *)
(***************************************************************************)
C12_UnlistedOneToOneButSlotSource ==
    [][Lowering /\ ~TableSplit(LastOp)
          => IF LastOp.inst = "Mov" /\ IsSlot(LastOp.src)
             THEN Emitted = <<Mov(ResolvedOp(LastOp.src, stack_frame'), R10),
                              Mov(R10, ResolvedOp(LastOp.dst, stack_frame'))>>
             ELSE Emitted = <<OneToOne(LastOp, stack_frame')>>]_vars

C12_Witness ==
    /\ Len(body) >= 1
    /\ body[1].inst = "Mov"
    /\ IsPseudoRegister(body[1].src)
    /\ IsHardwareRegister(body[1].dst)
    /\ Len(Lowered) = 2
    /\ Lowered[1] = Mov(Stack(stack_start(params) + 4), R10)
    /\ Lowered[2] = Mov(R10, body[1].dst.op)

(***************************************************************************)
(* C13: no emitted Idiv has an immediate divisor; a pseudo idiv by the     *)
(* immediate n lowers to mov Imm(n) -> R10, idiv R10, and a pseudo idiv by *)
(* anything else to one idiv on the resolved operand.                      *)
(***************************************************************************)
C13_IdivNeverImmediate ==
    /\ [](\A i \in DOMAIN body_vec :
             body_vec[i].inst = "Idiv" => body_vec[i].divisor.kind # "Imm")
    /\ [][Lowering /\ LastOp.inst = "Idiv"
             => IF IsImmediate(LastOp.divisor)
                THEN Emitted = <<Mov(Imm(LastOp.divisor.op.value), R10), Idiv(R10)>>
                ELSE Emitted = <<Idiv(ResolvedOp(LastOp.divisor, stack_frame'))>>]_vars

C13_Witness ==
    /\ Len(body) >= 1
    /\ body[1] = Idiv(Normal(Imm(3)))
    /\ Len(Lowered) >= 2
    /\ Lowered[1] = Mov(Imm(3), R10)
    /\ Lowered[2] = Idiv(R10)

(***************************************************************************)
(* C14: no emitted Push has a stack-slot operand; a pseudo push of a stack *)
(* slot lowers to mov slot -> R10, push R10, and every other push to one   *)
(* push of the unchanged operand.                                          *)
(***************************************************************************)
C14_PushNeverFromSlot ==
    /\ [](\A i \in DOMAIN body_vec :
             body_vec[i].inst = "Push" => ~IsStack(body_vec[i].val))
    /\ [][Lowering /\ LastOp.inst = "Push"
             => IF IsSlot(LastOp.val)
                THEN Emitted = <<Mov(ResolvedOp(LastOp.val, stack_frame'), R10), Push(R10)>>
                ELSE Emitted = <<Push(LastOp.val.op)>>]_vars

C14_Witness ==
    /\ Len(body) >= 1
    /\ body[1] = Push(PseudoRegister("a"))
    /\ Len(Lowered) >= 2
    /\ Lowered[1] = Mov(Stack(stack_start(params) + 4), R10)
    /\ Lowered[2] = Push(R10)

(***************************************************************************)
(* C15: a shift by an immediate count is emitted as one instruction with   *)
(* the destination resolved; a shift by any other count is emitted as a    *)
(* mov of the count into Cx followed by the shift by Cx; so every emitted  *)
(* shift has an immediate or Cx as its count.                              *)
(***************************************************************************)
IsShift(x) == x.inst = "Binary" /\ x.operator \in {"ShiftLeft", "ShiftRight"}

C15_ShiftCountInCx ==
    /\ [](\A i \in DOMAIN body_vec :
             IsShift(body_vec[i])
                 => body_vec[i].op.kind = "Imm" \/ body_vec[i].op = Cx)
    /\ [][Lowering /\ IsShift(LastOp)
             => LET dst == ResolvedOp(LastOp.dst_op, stack_frame')
                IN IF IsImmediate(LastOp.op)
                   THEN Emitted = <<BinaryInst(LastOp.operator, LastOp.op.op, dst)>>
                   ELSE Emitted = <<Mov(ResolvedOp(LastOp.op, stack_frame'), Cx),
                                    BinaryInst(LastOp.operator, Cx, dst)>>]_vars

C15_Witness ==
    /\ Len(body) >= 1
    /\ body[1] = BinaryInst("ShiftLeft", Normal(Register("Ax")), PseudoRegister("a"))
    /\ Len(Lowered) >= 2
    /\ Lowered[1] = Mov(Register("Ax"), Cx)
    /\ Lowered[2] = BinaryInst("ShiftLeft", Cx, Stack(stack_start(params) + 4))

(***************************************************************************)
(* C16: within one function distinct identifiers have distinct offsets,    *)
(* 4 bytes apart from the seed upwards, and every offset assigned is       *)
(* greater than the seed and less than the amount of the prologue          *)
(* AllocateStack at position 0 of the emitted body.                        *)
(***************************************************************************)
C16_SlotsInsideFrame ==
    LET map == stack_frame.map
        seed == stack_start(params)
    IN /\ \A i, j \in DOMAIN map : i # j => map[i] # map[j]
       /\ \A i \in DOMAIN map :
             /\ map[i] > seed
             /\ map[i] = seed + 4 \/ \E j \in DOMAIN map : map[j] = map[i] - 4
       /\ pc = "done" /\ DOMAIN map # {}
             => /\ IsAllocateStack(body_vec[1])
                /\ \A i \in DOMAIN map : map[i] < body_vec[1].bytes

C16_Witness ==
    /\ pc = "done"
    /\ params = 7
    /\ DOMAIN stack_frame.map = Identifiers
    /\ \E i \in Identifiers : stack_frame.map[i] = 28
    /\ body_vec[1] = AllocateStack(32)

====
